---- MODULE Spec2Model ----
(***************************************************************************)
(* Model of the chat client's streaming core:                              *)
(*   - streamChatResponse (src/src/services/apiService.ts), the async      *)
(*     generator that turns an SSE byte stream into text fragments;        *)
(*   - sendChatRequest and its adapters (same file), the provider          *)
(*     dispatch;                                                           *)
(*   - sendMessage / startStreaming / stopStreaming                        *)
(*     (src/src/context/ChatContext.tsx), the consumer and its             *)
(*     cancellation handle.                                                *)
(*                                                                         *)
(* Text is a sequence of atoms.  An atom is a record [t |-> ...] standing  *)
(* for a run of ASCII bytes that the code only ever treats as a unit       *)
(* ("data:", one space, "[DONE]", ...); the members of a JSON object are   *)
(* one atom [t |-> "json", p |-> payload].  A chunk boundary may fall      *)
(* between any two atoms, so inside a line and inside a JSON object.       *)
(***************************************************************************)
EXTENDS Integers, Sequences, FiniteSets, TLC

\* ------------------------------------------------------------------ bounds
MaxFrames == 3
MaxChunks == 2
\* The invocations of sendMessage on one ChatProvider; each owns the stream,
\* the generator and the AbortController it creates.
Inv == {1, 2}
First == {1}

\* ------------------------------------------------------------------- atoms
Tok(s) == [t |-> s]
NL == Tok("LF")
SP == Tok(" ")
DATA == Tok("data:")
EVENT == Tok("event:")
PING == Tok("ping")
DONE == Tok("[DONE]")
NAME == Tok("message_start")
LB == Tok("{")
RB == Tok("}")
NULLTOK == Tok("null")
QUOTE == Tok("quote")
Body(p) == [t |-> "json", p |-> p]

\* JSON values as JavaScript sees them after JSON.parse.  A string is the
\* sequence of its text atoms, so "" is Str(<<>>).
Undef == [ty |-> "undefined"]
Null == [ty |-> "null"]
Str(s) == [ty |-> "string", s |-> s]

\* The members of a parsed object that the code reads:
\*   chunk                       data.chunk
\*   type, dtype, dtext          data.type, data.delta.type, data.delta.text
\*   dcontent                    data.choices[0].delta.content
\*   mcontent                    data.choices[0].message.content
Obj(chunk, type, dtype, dtext, dcontent, mcontent) ==
    [chunk |-> chunk, type |-> type, dtype |-> dtype, dtext |-> dtext,
     dcontent |-> dcontent, mcontent |-> mcontent]

Hel == Str(<<Tok("Hel")>>)
lo == Str(<<Tok("lo")>>)
Empty == Str(<<>>)
wor == Str(<<Tok("wor")>>)
ld == Str(<<Tok("ld")>>)
CBD == Str(<<Tok("content_block_delta")>>)
TD == Str(<<Tok("text_delta")>>)

\* JavaScript truthiness of a JSON value (undefined, null and "" are falsy).
Truthy(v) == v.ty = "string" /\ v.s # <<>>

\* ------------------------------------------------------------ string helpers
RECURSIVE TrimStart(_)
TrimStart(s) == IF s # <<>> /\ Head(s) = SP THEN TrimStart(Tail(s)) ELSE s

RECURSIVE TrimEnd(_)
TrimEnd(s) ==
    IF s # <<>> /\ s[Len(s)] = SP THEN TrimEnd(SubSeq(s, 1, Len(s) - 1)) ELSE s

\* String.prototype.trim
Trim(s) == TrimEnd(TrimStart(s))

\* String.prototype.startsWith
StartsWith(s, pre) == Len(s) >= Len(pre) /\ SubSeq(s, 1, Len(pre)) = pre

\* The characters of a line as includes() sees them: the strings inside a JSON
\* object are part of the line's text, each closed by its quote.
ValueText(v) == IF v.ty = "string" THEN v.s \o <<QUOTE>> ELSE <<QUOTE>>

AtomText(a) ==
    IF a.t = "json"
    THEN ValueText(a.p.chunk) \o ValueText(a.p.type) \o ValueText(a.p.dtype)
         \o ValueText(a.p.dtext) \o ValueText(a.p.dcontent) \o ValueText(a.p.mcontent)
    ELSE <<a>>

RECURSIVE LineText(_)
LineText(s) == IF s = <<>> THEN <<>> ELSE AtomText(Head(s)) \o LineText(Tail(s))

\* String.prototype.includes
Includes(s, pat) ==
    LET txt == LineText(s)
    IN \E i \in 1..(Len(txt) - Len(pat) + 1) : SubSeq(txt, i, i + Len(pat) - 1) = pat

\* String.prototype.split('\n')
RECURSIVE split(_)
split(s) ==
    IF \A i \in 1..Len(s) : s[i] # NL
    THEN <<s>>
    ELSE LET i == CHOOSE k \in 1..Len(s) : s[k] = NL /\ \A j \in 1..(k - 1) : s[j] # NL
         IN <<SubSeq(s, 1, i - 1)>> \o split(SubSeq(s, i + 1, Len(s)))

NonBlank(line) == Trim(line) # <<>>

\* TextDecoder.decode(value, {stream: true}): every modelled byte run is ASCII,
\* which UTF-8 decodes one to one and never holds back.
decode(value) == value

\* chunk.split('\n').filter((line) => line.trim() !== '')
chunkLines(value) == SelectSeq(split(decode(value)), NonBlank)

\* JSON.parse: whitespace around the value is allowed; the only values the
\* modelled text can spell are an object and null, anything else is a
\* SyntaxError.
JSONparse(s) ==
    LET t == Trim(s)
    IN IF Len(t) = 3 /\ t[1] = LB /\ t[2].t = "json" /\ t[3] = RB
       THEN [ok |-> TRUE, data |-> t[2].p]
       ELSE IF t = <<NULLTOK>>
            THEN [ok |-> TRUE, data |-> Null]
            ELSE [ok |-> FALSE, data |-> Undef]

\* ------------------------------------------------- streamChatResponse, a line
\* The shape dispatch of one parsed payload: the values it yields (none or
\* one).  Reading a member of null throws a TypeError, which the catch around
\* the line swallows.
shapeDispatch_deltaFirst(data) ==
    IF data = Null THEN <<>>
    ELSE IF Truthy(data.dcontent) THEN <<data.dcontent>>
    ELSE IF data.chunk # Undef THEN <<data.chunk>>
    ELSE IF data.type = CBD /\ data.dtype = TD THEN <<data.dtext>>
    ELSE IF Truthy(data.mcontent) THEN <<data.mcontent>>
    ELSE <<>>

shapeDispatch(data) ==
    IF data = Null THEN <<>>
    ELSE IF data.chunk # Undef THEN <<data.chunk>>
    ELSE IF data.type = CBD /\ data.dtype = TD THEN <<data.dtext>>
    ELSE IF Truthy(data.dcontent) THEN <<data.dcontent>>
    ELSE IF Truthy(data.mcontent) THEN <<data.mcontent>>
    ELSE <<>>

\* line.startsWith('data: ') ? line.slice(6) : line
trimmedLine(line) ==
    IF StartsWith(line, <<DATA, SP>>) THEN SubSeq(line, 3, Len(line)) ELSE line

processLine_unmatchedYields(line) ==
    IF Includes(line, <<EVENT, SP, PING>>) THEN <<>>
    ELSE IF Includes(line, <<DONE>>) THEN <<>>
    ELSE IF StartsWith(line, <<EVENT>>) THEN <<>>
    ELSE IF ~StartsWith(line, <<DATA>>) THEN <<>>
    ELSE IF Trim(trimmedLine(line)) = <<>> THEN <<>>
    ELSE LET r == JSONparse(trimmedLine(line))
         IN IF ~r.ok THEN <<>>
            ELSE IF shapeDispatch(r.data) = <<>> THEN <<Undef>>
            ELSE shapeDispatch(r.data)

\* The body of the for loop over the lines of a chunk: the values one line
\* yields.
processLine(line) ==
    IF Includes(line, <<EVENT, SP, PING>>) THEN <<>>
    ELSE IF Includes(line, <<DONE>>) THEN <<>>
    ELSE IF StartsWith(line, <<EVENT>>) THEN <<>>
    ELSE IF ~StartsWith(line, <<DATA>>) THEN <<>>
    ELSE IF Trim(trimmedLine(line)) = <<>> THEN <<>>
    ELSE LET r == JSONparse(trimmedLine(line))
         IN IF r.ok THEN shapeDispatch(r.data) ELSE <<>>

\* The payload JSON.parse returns for a line, when the line gets that far and
\* parses.
parsedData(line) ==
    IF \/ Includes(line, <<EVENT, SP, PING>>)
       \/ Includes(line, <<DONE>>)
       \/ StartsWith(line, <<EVENT>>)
       \/ ~StartsWith(line, <<DATA>>)
       \/ Trim(trimmedLine(line)) = <<>>
    THEN <<>>
    ELSE LET r == JSONparse(trimmedLine(line))
         IN IF r.ok THEN <<r.data>> ELSE <<>>

\* ------------------------------------------------------------------ state
VARIABLES
    net,            \* [Inv -> bytes]: what the upstream has still to send
    queue,          \* [Inv -> Seq(chunk)]: chunks enqueued in the ReadableStream, not yet read
    sstate,         \* [Inv -> "none" | "open" | "closed" | "errored"]: the ReadableStream
    text,           \* [Inv -> bytes]: all the bytes of the stream, sent or not
    nchunks,        \* [Inv -> Nat]: how many chunks the stream has carried
    midLine,        \* [Inv -> BOOLEAN]: some chunk so far ended inside a line
    gpc,            \* [Inv -> ...]: where the streamChatResponse generator is suspended
    lines,          \* [Inv -> Seq(line)]: lines of the current chunk the for loop has not reached
    slot,           \* [Inv -> value]: the value of the pending yield
    locked,         \* [Inv -> BOOLEAN]: the reader obtained by getReader() holds the lock
    releases,       \* [Inv -> Nat]: how many times reader.releaseLock() has run
    sentinelSeen,   \* [Inv -> BOOLEAN]: the for loop has passed a data line whose payload is [DONE]
    parsed,         \* [Inv -> Seq(payload)]: what JSON.parse has returned so far
    msgs,           \* Seq(message): the messages of the current conversation
    isLoading,      \* ChatProvider state
    isStreaming,    \* ChatProvider state
    streamController, \* ChatProvider state: 0 for null, else the invocation whose controller it is
    aborted,        \* [Inv -> BOOLEAN]: signal.aborted of the controller invocation i created
    spc,            \* [Inv -> "idle" | "awaiting" | "streaming" | "finished"]: sendMessage
    responseContent, \* [Inv -> text]: the local accumulator of the streaming branch
    snapController, \* [Inv -> 0 | Inv]: streamController as the closure of invocation i captured it
    request,        \* [Inv -> Seq(message)]: chatRequest.messages as invocation i passed it
    streamEnabled,  \* settings.streamEnabled
    errorShown,     \* [Inv -> BOOLEAN]: the catch of sendMessage has run
    call,           \* the arguments of the sendChatRequest call: provider and chatRequest
    env,            \* the import.meta.env variables that are set
    dpc,            \* "idle" | "fetch" | "drain" | "done": where the sendChatRequest call is
    fetches,        \* how many outbound requests the call has issued
    result,         \* what the call settled with: [kind, ...]
    sent,           \* what the adapter passed to the provider: messages, or question and history
    synth,          \* the stream a Flowise or Google call synthesizes: its pump, the SDK events left, the frames enqueued
    server,         \* the Express server: the POST /api/chat/completions it handles and its answer
    responseStatus, \* the HTTP status the provider answered with, 0 while it has not
    fullContent,    \* the accumulator of the Neura adapter's non-streaming branch
    yielded         \* [Inv -> Seq(value)]: the fragments a draining consumer has received

streamVars == <<net, queue, sstate, text, nchunks, midLine>>
genVars == <<gpc, lines, slot, locked, releases, sentinelSeen, parsed>>
chatVars ==
    <<msgs, isLoading, isStreaming, streamController, aborted, spc, responseContent,
      snapController, request, streamEnabled, errorShown>>
dispVars ==
    <<call, env, dpc, fetches, result, sent, synth, server, responseStatus, fullContent>>
vars ==
    <<net, queue, sstate, text, nchunks, midLine, gpc, lines, slot, locked, releases,
      sentinelSeen,
      parsed, yielded, chatVars, dispVars>>

\* ------------------------------------------------------- the byte stream
\* controller.enqueue(value): the network hands the stream its next chunk, cut
\* at any byte.  The last chunk allowed by the bound carries all that is left.
transport_enqueue(i) ==
    /\ sstate[i] = "open"
    /\ net[i] # <<>>
    /\ nchunks[i] < MaxChunks
    /\ \E n \in 1..Len(net[i]) :
          /\ nchunks[i] = MaxChunks - 1 => n = Len(net[i])
          /\ queue' = [queue EXCEPT ![i] = Append(@, SubSeq(net[i], 1, n))]
          /\ net' = [net EXCEPT ![i] = SubSeq(@, n + 1, Len(@))]
          /\ midLine' = [midLine EXCEPT ![i] = @ \/ net[i][n] # NL]
    /\ nchunks' = [nchunks EXCEPT ![i] = @ + 1]
    /\ UNCHANGED <<sstate, text, genVars, yielded, chatVars, dispVars>>

\* controller.close(): the upstream has sent everything.
transport_close(i) ==
    /\ sstate[i] = "open"
    /\ net[i] = <<>>
    /\ sstate' = [sstate EXCEPT ![i] = "closed"]
    /\ UNCHANGED <<net, queue, text, nchunks, midLine, genVars, yielded, chatVars, dispVars>>

\* controller.error(e): the connection fails; an errored stream drops its queue.
transport_error(i) ==
    /\ sstate[i] = "open"
    /\ sstate' = [sstate EXCEPT ![i] = "errored"]
    /\ queue' = [queue EXCEPT ![i] = <<>>]
    /\ UNCHANGED <<net, text, nchunks, midLine, genVars, yielded, chatVars, dispVars>>

\* ------------------------------------------------------ streamChatResponse
releaseLock_skipped(i) == UNCHANGED <<locked, releases>>

\* finally { reader.releaseLock(); }
releaseLock(i) ==
    /\ locked' = [locked EXCEPT ![i] = FALSE]
    /\ releases' = [releases EXCEPT ![i] = @ + 1]

IsSentinelLine(line) == StartsWith(line, <<DATA>>) /\ Trim(trimmedLine(line)) = <<DONE>>

\* Index of the first of the lines that yields, 0 when none does.
FirstYield(ls) ==
    IF \E k \in 1..Len(ls) : processLine(ls[k]) # <<>>
    THEN CHOOSE k \in 1..Len(ls) :
            processLine(ls[k]) # <<>> /\ \A j \in 1..(k - 1) : processLine(ls[j]) = <<>>
    ELSE 0

RECURSIVE LinesParsed(_)
LinesParsed(ls) ==
    IF ls = <<>> THEN <<>> ELSE parsedData(Head(ls)) \o LinesParsed(Tail(ls))

\* The for loop over the lines ls, run up to its next yield, or through to the
\* next await reader.read() when no line is left that yields.
runLines(i, ls) ==
    LET k == FirstYield(ls)
        passed == IF k = 0 THEN ls ELSE SubSeq(ls, 1, k)
    IN /\ gpc' = [gpc EXCEPT ![i] = IF k = 0 THEN "read" ELSE "yield"]
       /\ lines' = [lines EXCEPT ![i] = IF k = 0 THEN <<>> ELSE SubSeq(ls, k + 1, Len(ls))]
       /\ slot' = [slot EXCEPT ![i] = IF k = 0 THEN Undef ELSE processLine(ls[k])[1]]
       /\ sentinelSeen' = [sentinelSeen EXCEPT ![i] =
                              @ \/ \E j \in 1..Len(passed) : IsSentinelLine(passed[j])]
       /\ parsed' = [parsed EXCEPT ![i] = @ \o LinesParsed(passed)]

\* await reader.read() resolves with a chunk: decode, split, filter, and run the
\* for loop to its first yield.
streamChatResponse_read(i) ==
    /\ gpc[i] = "read"
    /\ queue[i] # <<>>
    /\ runLines(i, chunkLines(Head(queue[i])))
    /\ queue' = [queue EXCEPT ![i] = Tail(@)]
    /\ UNCHANGED <<net, sstate, text, nchunks, midLine, locked, releases, yielded,
                   chatVars, dispVars>>

\* await reader.read() resolves with done: break, finally releaseLock, return.
streamChatResponse_done(i) ==
    /\ gpc[i] = "read"
    /\ queue[i] = <<>>
    /\ sstate[i] = "closed"
    /\ gpc' = [gpc EXCEPT ![i] = "done"]
    /\ releaseLock(i)
    /\ UNCHANGED <<streamVars, lines, slot, sentinelSeen, parsed, yielded, chatVars, dispVars>>

streamChatResponse_throw_swallowed(i) ==
    /\ gpc[i] = "read"
    /\ sstate[i] = "errored"
    /\ gpc' = [gpc EXCEPT ![i] = "done"]
    /\ releaseLock(i)
    /\ UNCHANGED <<streamVars, lines, slot, sentinelSeen, parsed, yielded, chatVars, dispVars>>

\* await reader.read() rejects: the outer try has no catch, so finally
\* releaseLock and the error leaves the generator.
streamChatResponse_throw(i) ==
    /\ gpc[i] = "read"
    /\ sstate[i] = "errored"
    /\ gpc' = [gpc EXCEPT ![i] = "threw"]
    /\ releaseLock(i)
    /\ UNCHANGED <<streamVars, lines, slot, sentinelSeen, parsed, yielded, chatVars, dispVars>>

\* A consumer that drains the generator (for await ... of stream) receives the
\* yielded value and asks for the next one.
drain_next(i) ==
    /\ gpc[i] = "yield"
    /\ yielded' = [yielded EXCEPT ![i] = Append(@, slot[i])]
    /\ runLines(i, lines[i])
    /\ UNCHANGED <<streamVars, locked, releases, chatVars, dispVars>>

\* ------------------------------------------------------------ ChatProvider
\* getFirstMessage(): the assistant message a new conversation starts with.
Welcome == [id |-> 0, role |-> "assistant", content |-> <<Tok("Hello!")>>]

\* The ChatProvider after mount, with one new conversation selected.
InitChat ==
    /\ msgs = <<Welcome>>
    /\ isLoading = FALSE
    /\ isStreaming = FALSE
    /\ streamController = 0
    /\ aborted = [i \in Inv |-> FALSE]
    /\ spc = [i \in Inv |-> "idle"]
    /\ responseContent = [i \in Inv |-> <<>>]
    /\ snapController = [i \in Inv |-> 0]
    /\ request = [i \in Inv |-> <<>>]
    /\ streamEnabled \in BOOLEAN
    /\ errorShown = [i \in Inv |-> FALSE]

\* The assistant message the streaming branch of invocation i creates carries
\* the id i; every other message carries 0.
Message(id, role, content) == [id |-> id, role |-> role, content |-> content]

NoResponse == <<Tok("No response from AI")>>
Sorry == <<Tok("Sorry, I encountered an error. Please try again.")>>

\* What `responseContent += chunk` appends for a yielded value.
toText(v) ==
    IF v.ty = "string" THEN v.s
    ELSE IF v = Null THEN <<Tok("null")>>
    ELSE <<Tok("undefined")>>

\* stopStreaming as the user's stop button calls it, with the current
\* streamController.  The model lets the click land between any two steps.
stopStreaming_click ==
    /\ \E i \in Inv : spc[i] # "idle"
    /\ IF streamController # 0
       THEN /\ aborted' = [aborted EXCEPT ![streamController] = TRUE]
            /\ streamController' = 0
       ELSE UNCHANGED <<aborted, streamController>>
    /\ isStreaming' = FALSE
    /\ UNCHANGED <<dispVars, streamVars, genVars, yielded, msgs, isLoading, spc, responseContent,
                   snapController, request, streamEnabled, errorShown>>

sendMessage_finally_loadingOnly(i) ==
    /\ isLoading' = FALSE
    /\ UNCHANGED <<aborted, streamController, isStreaming>>
    /\ spc' = [spc EXCEPT ![i] = "finished"]

\* The finally block of sendMessage: setIsLoading(false), then stopStreaming()
\* with the streamController its closure captured when sendMessage was called.
sendMessage_finally(i) ==
    /\ isLoading' = FALSE
    /\ IF snapController[i] # 0
       THEN /\ aborted' = [aborted EXCEPT ![snapController[i]] = TRUE]
            /\ streamController' = 0
       ELSE UNCHANGED <<aborted, streamController>>
    /\ isStreaming' = FALSE
    /\ spc' = [spc EXCEPT ![i] = "finished"]

\* The catch block of sendMessage: toast, and an error message is added.
sendMessage_catch(i) ==
    /\ msgs' = Append(msgs, Message(0, "assistant", Sorry))
    /\ errorShown' = [errorShown EXCEPT ![i] = TRUE]

contextWindowSize == 5

\* allMessages, or its last contextWindowSize * 2 entries when it has more.
messagesToInclude(allMessages) ==
    IF Len(allMessages) > contextWindowSize * 2
    THEN SubSeq(allMessages, Len(allMessages) - contextWindowSize * 2 + 1, Len(allMessages))
    ELSE allMessages

\* The messages array of the chat request: the system prompt when one is
\* set, then the role and content of the included messages of the
\* conversation as the closure of sendMessage holds it.
requestMessages(systemPrompt, allMessages) ==
    LET included == messagesToInclude(allMessages)
    IN (IF systemPrompt # <<>> /\ Trim(systemPrompt) # <<>>
        THEN <<[role |-> "system", content |-> systemPrompt]>>
        ELSE <<>>)
       \o [k \in 1..Len(included) |->
             [role |-> included[k].role, content |-> included[k].content]]

\* sendMessage(content), as the send box calls it (no edited message), up to
\* `await sendChatRequest(...)`: the user message is queued for the
\* conversation state, the request is built from the `conversations` of the
\* render that made this sendMessage, and the request leaves.
sendMessage_start(i, content, systemPrompt) ==
    /\ spc[i] = "idle"
    /\ Trim(content) # <<>>
    /\ isLoading' = TRUE
    /\ msgs' = Append(msgs, Message(0, "user", content))
    /\ snapController' = [snapController EXCEPT ![i] = streamController]
    /\ request' = [request EXCEPT ![i] = requestMessages(systemPrompt, msgs)]
    /\ spc' = [spc EXCEPT ![i] = "awaiting"]
    /\ UNCHANGED <<dispVars, streamVars, genVars, yielded, isStreaming, streamController, aborted,
                   responseContent, streamEnabled, errorShown>>

\* sendChatRequest resolves with a ReadableStream carrying the bytes t: the
\* empty assistant message is added, startStreaming() makes the controller,
\* and the for await asks the generator for its first value.
sendMessage_stream(i, t) ==
    /\ spc[i] = "awaiting"
    /\ streamEnabled
    /\ msgs' = Append(msgs, Message(i, "assistant", <<>>))
    /\ streamController' = i
    /\ isStreaming' = TRUE
    /\ net' = [net EXCEPT ![i] = t]
    /\ text' = [text EXCEPT ![i] = t]
    /\ sstate' = [sstate EXCEPT ![i] = "open"]
    /\ gpc' = [gpc EXCEPT ![i] = "read"]
    /\ locked' = [locked EXCEPT ![i] = TRUE]
    /\ spc' = [spc EXCEPT ![i] = "streaming"]
    /\ UNCHANGED <<dispVars, queue, nchunks, midLine, lines, slot, releases, sentinelSeen, parsed,
                   yielded,
                   isLoading, aborted, responseContent, snapController, request, streamEnabled,
                   errorShown>>

\* sendChatRequest resolves with a ChatResponse whose first choice carries the
\* content c.
sendMessage_complete(i, c) ==
    /\ spc[i] = "awaiting"
    /\ msgs' = Append(msgs, Message(0, "assistant", IF c = <<>> THEN NoResponse ELSE c))
    /\ sendMessage_finally(i)
    /\ UNCHANGED <<dispVars, streamVars, genVars, yielded, responseContent, snapController, request,
                   streamEnabled, errorShown>>

\* sendChatRequest rejects.
sendMessage_error(i) ==
    /\ spc[i] = "awaiting"
    /\ sendMessage_catch(i)
    /\ sendMessage_finally(i)
    /\ UNCHANGED <<dispVars, streamVars, genVars, yielded, responseContent, snapController, request,
                   streamEnabled>>

cancelled_never(i) == FALSE

\* controller.signal.aborted, of the controller invocation i got from
\* startStreaming().
cancelled(i) == aborted[i]

\* One turn of the for await: the generator has yielded.  When the controller
\* is aborted the loop breaks, which returns the generator (its finally
\* releases the lock) and ends sendMessage; otherwise the fragment is appended
\* to the assistant message and the generator resumes.
sendMessage_chunk(i) ==
    /\ spc[i] = "streaming"
    /\ gpc[i] = "yield"
    /\ IF cancelled(i)
       THEN /\ gpc' = [gpc EXCEPT ![i] = "returned"]
            /\ releaseLock(i)
            /\ sendMessage_finally(i)
            /\ UNCHANGED <<lines, slot, sentinelSeen, parsed, msgs, responseContent>>
       ELSE /\ responseContent' = [responseContent EXCEPT ![i] = @ \o toText(slot[i])]
            /\ msgs' = [k \in 1..Len(msgs) |->
                          IF msgs[k].id = i
                          THEN [msgs[k] EXCEPT !.content = responseContent'[i]]
                          ELSE msgs[k]]
            /\ runLines(i, lines[i])
            /\ UNCHANGED <<locked, releases, isLoading, isStreaming, streamController, aborted, spc>>
    /\ UNCHANGED <<dispVars, streamVars, yielded, snapController, request, streamEnabled, errorShown>>

\* The generator has returned: the for await ends and sendMessage finishes.
sendMessage_streamEnd(i) ==
    /\ spc[i] = "streaming"
    /\ gpc[i] = "done"
    /\ sendMessage_finally(i)
    /\ UNCHANGED <<dispVars, streamVars, genVars, yielded, msgs, responseContent, snapController, request,
                   streamEnabled, errorShown>>

\* The generator has thrown: the error is no AbortError, so the inner catch
\* rethrows it to the catch of sendMessage.
sendMessage_streamError(i) ==
    /\ spc[i] = "streaming"
    /\ gpc[i] = "threw"
    /\ sendMessage_catch(i)
    /\ sendMessage_finally(i)
    /\ UNCHANGED <<dispVars, streamVars, genVars, yielded, responseContent, snapController, request,
                   streamEnabled>>

\* ---------------------------------------------------------- sendChatRequest
Providers == {"groq", "claude", "openai", "openrouter", "flowise", "neura", "google"}

\* The HTTP statuses the modelled providers answer with.
Statuses == {200, 401, 429, 500}

Secret == <<Tok("sk")>>

\* The environment variable getApiKeyForProvider reads for a provider; the
\* switch has no case for google, which takes the default.
keyVar(provider) ==
    CASE provider = "groq" -> "VITE_GROQ_API_KEY"
      [] provider = "claude" -> "VITE_CLAUDE_API_KEY"
      [] provider = "openai" -> "VITE_OPENAI_API_KEY"
      [] provider = "openrouter" -> "VITE_OPENROUTER_API_KEY"
      [] provider = "flowise" -> "VITE_FLOWISE_API_KEY"
      [] provider = "neura" -> "VITE_NEURA_ROUTER_API_KEY"
      [] OTHER -> "VITE_GROQ_API_KEY"

\* import.meta.env.X || ''
getApiKeyForProvider(provider) == IF keyVar(provider) \in env THEN Secret ELSE <<>>

NoResult == [kind |-> "none", reason |-> "", content |-> <<>>, status |-> 0]
Error(reason) == [kind |-> "error", reason |-> reason, content |-> <<>>, status |-> 0]
Response(content) == [kind |-> "response", reason |-> "", content |-> content, status |-> 0]
Stream == [kind |-> "stream", reason |-> "", content |-> <<>>, status |-> 0]

HttpError_bare(st) == Error("http")

\* new Error(`... request failed with status ${response.status}: ...`)
HttpError(st) == [Error("http") EXCEPT !.status = st]

\* response.ok
ok(st) == st >= 200 /\ st <= 299

\* What the synchronous part of an adapter does: it throws before sending,
\* or sends its one request and awaits it, or sends it from the start() of a
\* stream it returns at once.
Throw(reason) == [requests |-> 0, next |-> "done", result |-> Error(reason)]
Await == [requests |-> 1, next |-> "fetch", result |-> NoResult]
ReturnStream == [requests |-> 1, next |-> "done", result |-> Stream]

missingKey_never(apiKey, provider) == FALSE

\* if (!apiKey && provider !== 'flowise')
missingKey(apiKey, provider) == apiKey = <<>> /\ provider # "flowise"

\* chatRequest.messages.filter(msg => msg.role === 'user').pop() is defined.
HasUser(messages) == \E k \in 1..Len(messages) : messages[k].role = "user"

NotBlank(msg) == msg.content # <<>> /\ Trim(msg.content) # <<>>

anthropicMessages_unfiltered(messages) ==
    [k \in 1..Len(messages) |->
        [role |-> IF messages[k].role = "system" THEN "user" ELSE messages[k].role,
         content |-> messages[k].content]]

anthropicMessages(messages) ==
    LET kept == SelectSeq(messages, NotBlank)
    IN [k \in 1..Len(kept) |->
          [role |-> IF kept[k].role = "system" THEN "user" ELSE kept[k].role,
           content |-> kept[k].content]]

sendClaudeRequest(chatRequest) ==
    IF anthropicMessages(chatRequest.messages) = <<>> THEN Throw("messages") ELSE Await

sendOpenRouterRequest(chatRequest) == Await

sendOpenAICompatibleRequest(chatRequest) == Await

\* getApiUrlForProvider falls back to a default URL, so apiUrl is never empty.
sendFlowiseRequest(chatRequest) ==
    IF "VITE_FLOWISE_CHATFLOW_ID" \notin env THEN Throw("config")
    ELSE IF ~HasUser(chatRequest.messages) THEN Throw("messages")
    ELSE IF chatRequest.stream THEN ReturnStream
    ELSE Await

sendNeuraRequest(chatRequest) == Await

nonSystemMessages(messages) == SelectSeq(messages, LAMBDA m : m.role # "system")

sendGoogleRequest(chatRequest) ==
    IF chatRequest.model = "imagen-3.0-generate-001"
    THEN IF ~HasUser(chatRequest.messages) THEN Throw("messages") ELSE Await
    ELSE IF ~HasUser(nonSystemMessages(chatRequest.messages)) THEN Throw("messages")
    ELSE IF chatRequest.model = "code-gecko" THEN Await
    ELSE IF chatRequest.stream THEN ReturnStream
    ELSE Await

\* What an adapter hands to its provider: the messages of a JSON body, or the
\* question and the history of an SDK call.
NoBody == [kind |-> "none", messages |-> <<>>, question |-> <<>>, history |-> <<>>]
Messages(messages) == [NoBody EXCEPT !.kind = "messages", !.messages = messages]
Question(kind, question, history) ==
    [NoBody EXCEPT !.kind = kind, !.question = question, !.history = history]

\* messages.filter(msg => msg.role === 'user').pop()
lastUserMessage(messages) ==
    LET users == SelectSeq(messages, LAMBDA m : m.role = "user")
    IN users[Len(users)]

\* The history of sendFlowiseRequest: every message that is neither a system
\* message nor a user message with the content of the last user message.
flowiseHistory(messages) ==
    LET last == lastUserMessage(messages)
        kept == SelectSeq(messages, LAMBDA m :
                    m.role # "system" /\ ~(m.role = "user" /\ m.content = last.content))
    IN [k \in 1..Len(kept) |->
          [role |-> IF kept[k].role = "assistant" THEN "apiMessage" ELSE "userMessage",
           content |-> kept[k].content]]

\* messages.map(msg => ({role: msg.role === 'system' ? 'user' : msg.role, ...}))
neuraMessages(messages) ==
    [k \in 1..Len(messages) |->
        [role |-> IF messages[k].role = "system" THEN "user" ELSE messages[k].role,
         content |-> messages[k].content]]

Hello == <<Tok("Hello")>>

\* The first loop of sendGoogleRequest and the placeholder put before a
\* history that does not start with a user entry.
googleHistory(messages) ==
    LET history == [k \in 1..Len(messages) |->
                      [role |-> IF messages[k].role = "user" THEN "user" ELSE "model",
                       text |-> messages[k].content]]
    IN IF Len(history) > 0 /\ history[1].role # "user"
       THEN <<[role |-> "user", text |-> Hello]>> \o history
       ELSE history

\* The second loop: an entry with the role of the last one pushed is joined
\* to it with a line feed, any other is pushed.
RECURSIVE combine(_, _)
combine(processed, history) ==
    IF history = <<>> THEN processed
    ELSE LET msg == Head(history)
             n == Len(processed)
         IN IF n > 0 /\ processed[n].role = msg.role
            THEN combine([processed EXCEPT ![n].text = @ \o <<NL>> \o msg.text],
                         Tail(history))
            ELSE combine(Append(processed, msg), Tail(history))

processedHistory_unmerged(messages) == googleHistory(nonSystemMessages(messages))

processedHistory(messages) == combine(<<>>, googleHistory(nonSystemMessages(messages)))

adapterBody(provider, chatRequest) ==
    LET messages == chatRequest.messages
    IN IF provider = "flowise"
       THEN IF "VITE_FLOWISE_CHATFLOW_ID" \in env /\ HasUser(messages)
            THEN Question("prediction", lastUserMessage(messages).content,
                          flowiseHistory(messages))
            ELSE NoBody
       ELSE IF provider = "neura" THEN Messages(neuraMessages(messages))
       ELSE IF provider = "claude"
       THEN IF anthropicMessages(messages) = <<>> THEN NoBody
            ELSE Messages(anthropicMessages(messages))
       ELSE IF provider = "google"
       THEN IF chatRequest.model \in {"imagen-3.0-generate-001", "code-gecko"}
            THEN IF HasUser(messages)
                 THEN Question("content", lastUserMessage(messages).content, <<>>)
                 ELSE NoBody
            ELSE Question("chat",
                          IF HasUser(messages) THEN lastUserMessage(messages).content
                          ELSE <<>>,
                          processedHistory(messages))
       ELSE Messages(messages)

\* The ReadableStream a Flowise or Google streaming call returns, with the
\* pump its start() runs: pc is "none" (no such stream), "calling" (awaiting
\* the SDK call), "iterating" (in the for await over the SDK's events),
\* "closed" or "errored"; upstream is what the SDK has still to deliver,
\* frames what controller.enqueue has been given.
NoSynth == [pc |-> "none", upstream |-> <<>>, frames |-> <<>>]

\* sendChatRequest(provider, chatRequest) up to its first await.
sendChatRequest_call ==
    /\ dpc = "idle"
    /\ LET provider == call.provider
           chatRequest == call.request
           apiKey == getApiKeyForProvider(provider)
           r == IF missingKey(apiKey, provider) THEN Throw("config")
                ELSE IF provider = "flowise" THEN sendFlowiseRequest(chatRequest)
                ELSE IF provider = "neura" THEN sendNeuraRequest(chatRequest)
                ELSE IF provider = "claude" THEN sendClaudeRequest(chatRequest)
                ELSE IF provider = "openrouter" THEN sendOpenRouterRequest(chatRequest)
                ELSE IF provider = "google" THEN sendGoogleRequest(chatRequest)
                ELSE sendOpenAICompatibleRequest(chatRequest)
       IN /\ fetches' = fetches + r.requests
          /\ dpc' = r.next
          /\ result' = r.result
          /\ sent' = IF missingKey(apiKey, provider) THEN NoBody
                     ELSE adapterBody(provider, chatRequest)
          /\ synth' = IF r = ReturnStream /\ provider \in {"flowise", "google"}
                      THEN [synth EXCEPT !.pc = "calling"]
                      ELSE synth
    /\ UNCHANGED <<streamVars, genVars, yielded, chatVars, call, env, server, responseStatus,
                   fullContent>>

fetch_reject_retry ==
    /\ dpc = "fetch"
    /\ fetches < 3
    /\ fetches' = fetches + 1
    /\ UNCHANGED <<streamVars, genVars, yielded, chatVars, call, env, sent, synth, server, responseStatus, dpc, result, fullContent>>

\* The awaited request rejects (no connection): the adapter's catch logs and
\* rethrows.
fetch_reject ==
    /\ dpc = "fetch"
    /\ dpc' = "done"
    /\ result' = Error("network")
    /\ UNCHANGED <<streamVars, genVars, yielded, chatVars, call, env, sent, synth, server, responseStatus, fetches, fullContent>>

\* The response arrives with a status that is not ok.
\* The four fetch adapters throw an error that names the status; what the
\* Flowise and Google SDKs throw is theirs, and may name it or not.
fetch_notOk(st) ==
    /\ dpc = "fetch"
    /\ ~ok(st)
    /\ dpc' = "done"
    /\ responseStatus' = st
    /\ \E shown \in (IF call.provider \in {"flowise", "google"} THEN {0, st} ELSE {st}) :
          result' = HttpError(shown)
    /\ UNCHANGED <<streamVars, genVars, yielded, chatVars, call, env, sent, synth, server, fetches, fullContent>>

\* The response is ok but its body is not the JSON (or, for Imagen, the
\* image) a non-streaming adapter reads from it.
fetch_badBody ==
    /\ dpc = "fetch"
    /\ call.provider # "neura"
    /\ ~call.request.stream
    /\ dpc' = "done"
    /\ responseStatus' \in {st \in Statuses : ok(st)}
    /\ result' = Error("parse")
    /\ UNCHANGED <<streamVars, genVars, yielded, chatVars, call, env, sent, synth, server, fetches, fullContent>>

passesStreamThrough_always(stream) == TRUE

\* if (chatRequest.stream) in sendNeuraRequest
passesStreamThrough(stream) == stream

\* The response is ok.  A streaming call returns the body (Neura: a stream
\* fed from the body); a non-streaming call returns the ChatResponse read
\* from the body, which carries the content c; a non-streaming Neura call
\* takes the reader of the body, which will carry the bytes t.
fetch_ok(i, c, t) ==
    /\ dpc = "fetch"
    /\ responseStatus' \in {st \in Statuses : ok(st)}
    /\ IF call.provider = "neura"
       THEN IF passesStreamThrough(call.request.stream)
            THEN /\ dpc' = "done"
                 /\ result' = Stream
                 /\ UNCHANGED <<net, text, sstate, locked>>
            ELSE /\ dpc' = "drain"
                 /\ net' = [net EXCEPT ![i] = t]
                 /\ text' = [text EXCEPT ![i] = t]
                 /\ sstate' = [sstate EXCEPT ![i] = "open"]
                 /\ locked' = [locked EXCEPT ![i] = TRUE]
                 /\ UNCHANGED result
       ELSE /\ dpc' = "done"
            /\ result' = IF call.request.stream THEN Stream ELSE Response(c)
            /\ UNCHANGED <<net, text, sstate, locked>>
    /\ UNCHANGED <<queue, nchunks, midLine, gpc, lines, slot, releases, sentinelSeen, parsed,
                   yielded,
                   chatVars, call, env, sent, synth, server, fetches, fullContent>>

\* What one line adds to fullContent in the non-streaming branch of
\* sendNeuraRequest.
aggregateLine(line) ==
    IF Includes(line, <<EVENT, SP, PING>>) THEN <<>>
    ELSE IF Includes(line, <<DONE>>) THEN <<>>
    ELSE IF StartsWith(line, <<EVENT>>) THEN <<>>
    ELSE IF ~StartsWith(line, <<DATA>>) THEN <<>>
    ELSE IF Trim(trimmedLine(line)) = <<>> THEN <<>>
    ELSE LET r == JSONparse(trimmedLine(line))
         IN IF ~r.ok \/ r.data = Null THEN <<>>
            ELSE IF r.data.chunk # Undef THEN toText(r.data.chunk)
            ELSE IF Truthy(r.data.dcontent) THEN toText(r.data.dcontent)
            ELSE <<>>

RECURSIVE aggregateLines(_)
aggregateLines(ls) ==
    IF ls = <<>> THEN <<>> ELSE aggregateLine(Head(ls)) \o aggregateLines(Tail(ls))

\* await reader.read() resolves with a chunk in the draining loop.
sendNeuraRequest_read(i) ==
    /\ dpc = "drain"
    /\ queue[i] # <<>>
    /\ fullContent' = fullContent \o aggregateLines(chunkLines(Head(queue[i])))
    /\ queue' = [queue EXCEPT ![i] = Tail(@)]
    /\ UNCHANGED <<net, sstate, text, nchunks, midLine, genVars, yielded, chatVars,
                   call, env, sent, synth, server, responseStatus, dpc, fetches, result>>

\* await reader.read() resolves with done: releaseLock, and the complete
\* response is returned.
sendNeuraRequest_done(i) ==
    /\ dpc = "drain"
    /\ queue[i] = <<>>
    /\ sstate[i] = "closed"
    /\ releaseLock(i)
    /\ dpc' = "done"
    /\ result' = Response(fullContent)
    /\ UNCHANGED <<streamVars, gpc, lines, slot, sentinelSeen, parsed, yielded, chatVars,
                   call, env, sent, synth, server, responseStatus, fetches, fullContent>>

\* await reader.read() rejects: releaseLock, and the catch rethrows.
sendNeuraRequest_throw(i) ==
    /\ dpc = "drain"
    /\ sstate[i] = "errored"
    /\ releaseLock(i)
    /\ dpc' = "done"
    /\ result' = Error("read")
    /\ UNCHANGED <<streamVars, gpc, lines, slot, sentinelSeen, parsed, yielded, chatVars,
                   call, env, sent, synth, server, responseStatus, fetches, fullContent>>

\* ------------------------------------------- the synthesized streams
\* An event of the Flowise SDK ({event, data}); a chunk of the Google SDK is
\* the event "token" with data chunk.text().
SdkEvent(event, data) == [event |-> event, data |-> data]

\* `data: ${JSON.stringify({choices: [{delta: {content: data}}]})}\n\n`
DeltaFrame(data) ==
    <<DATA, SP, LB, Body(Obj(Undef, Undef, Undef, Undef, Str(data), Undef)), RB, NL, NL>>

\* 'data: [DONE]\n\n'
DoneFrame == <<DATA, SP, DONE, NL, NL>>

\* await createPrediction / sendMessageStream resolves: the for await starts
\* over the events the SDK will deliver.
synth_resolve(events) ==
    /\ synth.pc = "calling"
    /\ synth' = [synth EXCEPT !.pc = "iterating", !.upstream = events]
    /\ UNCHANGED <<streamVars, genVars, yielded, chatVars, call, env, dpc, fetches, result,
                   sent, server, responseStatus, fullContent>>

\* One turn of the for await: a token event with data is enqueued as a data
\* frame, any other event is passed over.
synth_event ==
    /\ synth.pc = "iterating"
    /\ synth.upstream # <<>>
    /\ LET chunk == Head(synth.upstream)
       IN synth' = [synth EXCEPT
                       !.upstream = Tail(@),
                       !.frames = IF chunk.event = "token" /\ chunk.data # <<>>
                                  THEN Append(@, DeltaFrame(chunk.data))
                                  ELSE @]
    /\ UNCHANGED <<streamVars, genVars, yielded, chatVars, call, env, dpc, fetches, result,
                   sent, server, responseStatus, fullContent>>

synth_end_noSentinel ==
    /\ synth.pc = "iterating"
    /\ synth.upstream = <<>>
    /\ synth' = [synth EXCEPT !.pc = "closed"]
    /\ UNCHANGED <<streamVars, genVars, yielded, chatVars, call, env, dpc, fetches, result,
                   sent, server, responseStatus, fullContent>>

\* The SDK's iteration is over: the sentinel frame is enqueued and the
\* stream closed.
synth_end ==
    /\ synth.pc = "iterating"
    /\ synth.upstream = <<>>
    /\ synth' = [synth EXCEPT !.pc = "closed", !.frames = Append(@, DoneFrame)]
    /\ UNCHANGED <<streamVars, genVars, yielded, chatVars, call, env, dpc, fetches, result,
                   sent, server, responseStatus, fullContent>>

\* The SDK call rejects or its iteration throws: the catch gives the error
\* to controller.error.
synth_fail ==
    /\ synth.pc \in {"calling", "iterating"}
    /\ synth' = [synth EXCEPT !.pc = "errored"]
    /\ UNCHANGED <<streamVars, genVars, yielded, chatVars, call, env, dpc, fetches, result,
                   sent, server, responseStatus, fullContent>>

\* ------------------------------------------------- server.ts, the proxy
\* The environment variable getApiKey reads for a provider, "" when the
\* switch has no case for it.
serverKeyVar(provider) ==
    CASE provider = "openai" -> "OPENAI_API_KEY"
      [] provider = "groq" -> "GROQ_API_KEY"
      [] provider \in {"claude", "anthropic"} -> "CLAUDE_API_KEY"
      [] provider = "google" -> "GOOGLE_API_KEY"
      [] provider = "openrouter" -> "OPENROUTER_API_KEY"
      [] provider = "neurarouter" -> "NEURA_ROUTER_API_KEY"
      [] provider = "flowise" -> "FLOWISE_API_KEY"
      [] OTHER -> ""

\* getApiKey(provider) is not null.
getApiKey(provider, processEnv) == serverKeyVar(provider) \in processEnv

\* The cases of the switch in the handler.
SwitchCases ==
    {"openai", "groq", "claude", "anthropic", "google", "openrouter", "neurarouter", "flowise"}

\* A request body (provider "" when the field is missing, messages an array
\* or not) under the server's environment, and the answer it has received.
Post(provider, messages, processEnv) ==
    [pc |-> "received", provider |-> provider, messages |-> messages, env |-> processEnv,
     status |-> 0, error |-> "", calls |-> 0]
\* No request has come in.
NoPost == [Post("", FALSE, {}) EXCEPT !.pc = "idle"]

Answer(status, error) == [server EXCEPT !.pc = "answered", !.status = status, !.error = error]

\* app.post('/api/chat/completions') up to its first await: the validations,
\* the key lookup, and the switch, whose cases all call their provider.
server_post ==
    /\ server.pc = "received"
    /\ server' =
          IF server.provider = "" THEN Answer(400, "Provider is required")
          ELSE IF ~server.messages THEN Answer(400, "Messages array is required")
          ELSE IF ~getApiKey(server.provider, server.env) /\ server.provider # "flowise"
          THEN Answer(500, "API key not configured for provider")
          ELSE IF server.provider \in SwitchCases
          THEN [server EXCEPT !.pc = "upstream", !.calls = @ + 1]
          ELSE Answer(400, "Unsupported provider")
    /\ UNCHANGED <<streamVars, genVars, yielded, chatVars, call, env, dpc, fetches, result,
                   sent, synth, responseStatus, fullContent>>

\* The provider call resolves and the response is sent.
server_respond ==
    /\ server.pc = "upstream"
    /\ server' = Answer(200, "")
    /\ UNCHANGED <<streamVars, genVars, yielded, chatVars, call, env, dpc, fetches, result,
                   sent, synth, responseStatus, fullContent>>

\* The provider call rejects or answers with an error: the catch answers 500.
server_catch ==
    /\ server.pc = "upstream"
    /\ server' = Answer(500, "Internal server error")
    /\ UNCHANGED <<streamVars, genVars, yielded, chatVars, call, env, dpc, fetches, result,
                   sent, synth, responseStatus, fullContent>>

\* ------------------------------------------------------------ SSE streams
DataLine(p) == <<DATA, SP, LB, Body(p), RB>>
Frame(line) == line \o <<NL, NL>>

ChunkPayload(v) == Obj(v, Undef, Undef, Undef, Undef, Undef)
DeltaPayload(v) == Obj(Undef, Undef, Undef, Undef, v, Undef)

\* The lines the modelled upstreams send.
StreamLines ==
    { DataLine(ChunkPayload(Hel)),      \* data: {"chunk":"Hel"}
      DataLine(DeltaPayload(lo)),       \* data: {"choices":[{"delta":{"content":"lo"}}]}
      <<DATA, SP, DONE>>,               \* data: [DONE]
      <<EVENT, SP, PING>>,              \* event: ping
      <<EVENT, SP, NAME>>,              \* event: message_start
      <<DATA, SP, LB>> }                \* data: {          (invalid JSON)

\* The streams of at most n frames, each frame one of the lines L.
RECURSIVE TextsOver(_, _)
TextsOver(L, n) ==
    IF n = 0 THEN {<<>>}
    ELSE LET S == TextsOver(L, n - 1)
         IN S \cup {t \o Frame(l) : t \in S, l \in L}

TextsUpTo(n) == TextsOver(StreamLines, n)

\* No stream exists yet.
InitNoStream ==
    /\ net = [i \in Inv |-> <<>>]
    /\ queue = [i \in Inv |-> <<>>]
    /\ sstate = [i \in Inv |-> "none"]
    /\ text = [i \in Inv |-> <<>>]
    /\ nchunks = [i \in Inv |-> 0]
    /\ midLine = [i \in Inv |-> FALSE]
    /\ gpc = [i \in Inv |-> "none"]
    /\ lines = [i \in Inv |-> <<>>]
    /\ slot = [i \in Inv |-> Undef]
    /\ locked = [i \in Inv |-> FALSE]
    /\ releases = [i \in Inv |-> 0]
    /\ sentinelSeen = [i \in Inv |-> FALSE]
    /\ parsed = [i \in Inv |-> <<>>]
    /\ yielded = [i \in Inv |-> <<>>]

ChatRequest(messages, model, stream) ==
    [messages |-> messages, model |-> model, stream |-> stream]

\* sendChatRequest is not being called.
InitNoCall ==
    /\ call = [provider |-> "groq", request |-> ChatRequest(<<>>, "", FALSE)]
    /\ env = {}
    /\ dpc = "idle"
    /\ fetches = 0
    /\ result = NoResult
    /\ sent = NoBody
    /\ synth = NoSynth
    /\ server = NoPost
    /\ responseStatus = 0
    /\ fullContent = <<>>

\* streamChatResponse(stream) called on an open stream and iterated: getReader()
\* locks the stream, and the generator awaits its first read.  Stream 1 carries
\* one of the given texts.
InitStream(texts) ==
    /\ InitChat
    /\ InitNoCall
    /\ net \in [Inv -> texts \cup {<<>>}]
    /\ queue = [i \in Inv |-> <<>>]
    /\ sstate = [i \in Inv |-> IF i = 1 THEN "open" ELSE "none"]
    /\ text = net
    /\ nchunks = [i \in Inv |-> 0]
    /\ midLine = [i \in Inv |-> FALSE]
    /\ gpc = [i \in Inv |-> IF i = 1 THEN "read" ELSE "none"]
    /\ lines = [i \in Inv |-> <<>>]
    /\ slot = [i \in Inv |-> Undef]
    /\ locked = [i \in Inv |-> i = 1]
    /\ releases = [i \in Inv |-> 0]
    /\ sentinelSeen = [i \in Inv |-> FALSE]
    /\ parsed = [i \in Inv |-> <<>>]
    /\ yielded = [i \in Inv |-> <<>>]
    /\ \A i \in Inv : i # 1 => net[i] = <<>>

InitNormalize == InitStream(TextsUpTo(MaxFrames))

NextNormalize ==
    \E i \in First :
        \/ transport_enqueue(i)
        \/ transport_close(i)
        \/ transport_error(i)
        \/ streamChatResponse_read(i)
        \/ streamChatResponse_done(i)
        \/ streamChatResponse_throw(i)
        \/ drain_next(i)

SpecNormalize == InitNormalize /\ [][NextNormalize]_vars

\* A conversation in the ChatProvider: the user sends a message, the provider
\* answers with a stream of text frames, a complete response or an error, and
\* the user may press stop.
ChatLines == {DataLine(ChunkPayload(Hel)), DataLine(DeltaPayload(lo))}
ChatTexts == TextsOver(ChatLines, MaxFrames)
UserInputs == {<<Tok("Hi")>>}
SystemPrompts == {<<>>, <<Tok("Be brief")>>}
ResponseContents == {<<>>, <<Tok("Hello")>>}

InitChatSpec == InitChat /\ InitNoStream /\ InitNoCall

NextChat ==
    \/ stopStreaming_click
    \/ \E i \in First :
        \/ \E content \in UserInputs, systemPrompt \in SystemPrompts :
              sendMessage_start(i, content, systemPrompt)
        \/ \E t \in ChatTexts : sendMessage_stream(i, t)
        \/ \E c \in ResponseContents : sendMessage_complete(i, c)
        \/ sendMessage_error(i)
        \/ sendMessage_chunk(i)
        \/ sendMessage_streamEnd(i)
        \/ sendMessage_streamError(i)
        \/ transport_enqueue(i)
        \/ transport_close(i)
        \/ transport_error(i)
        \/ streamChatResponse_read(i)
        \/ streamChatResponse_done(i)
        \/ streamChatResponse_throw(i)

SpecChat == InitChatSpec /\ [][NextChat]_vars

\* Two invocations of sendMessage on one ChatProvider, interleaved in any
\* order, each answered with a stream of one frame, a complete response or an
\* error; the stop button is not pressed.
TwoTexts == {Frame(DataLine(ChunkPayload(Hel)))}

InitTwo == InitChatSpec /\ streamEnabled

NextTwo ==
    \E i \in Inv :
        \/ \E content \in UserInputs : sendMessage_start(i, content, <<>>)
        \/ \E t \in TwoTexts : sendMessage_stream(i, t)
        \/ \E c \in ResponseContents : sendMessage_complete(i, c)
        \/ sendMessage_error(i)
        \/ sendMessage_chunk(i)
        \/ sendMessage_streamEnd(i)
        \/ sendMessage_streamError(i)
        \/ transport_enqueue(i)
        \/ transport_close(i)
        \/ transport_error(i)
        \/ streamChatResponse_read(i)
        \/ streamChatResponse_done(i)
        \/ streamChatResponse_throw(i)

SpecTwo == InitTwo /\ [][NextTwo]_vars

\* One call of sendChatRequest, for each provider, over requests with and
\* without a user message, a system prompt and blank content, under
\* environments with no variable set, all set, only the Groq key, and only the
\* Flowise chatflow id.
EnvNames ==
    {keyVar(p) : p \in Providers} \cup {"VITE_FLOWISE_CHATFLOW_ID"}
Envs == {{}, EnvNames, {"VITE_GROQ_API_KEY"}, {"VITE_FLOWISE_CHATFLOW_ID"}}

ReqMessage(role, content) == [role |-> role, content |-> content]
sys == ReqMessage("system", <<Tok("Be brief")>>)
hi == ReqMessage("user", <<Tok("Hi")>>)
blank == ReqMessage("user", <<SP>>)
welcome == ReqMessage("assistant", Welcome.content)

Requests == {<<welcome>>, <<welcome, hi>>, <<sys, welcome, hi>>, <<sys, welcome>>, <<blank>>}

ModelsOf(provider) ==
    IF provider = "google"
    THEN {"gemini-pro", "imagen-3.0-generate-001", "code-gecko"}
    ELSE {"default"}

Calls ==
    { [provider |-> p, request |-> ChatRequest(m, md, st)] :
        p \in Providers, m \in Requests,
        md \in {"gemini-pro", "imagen-3.0-generate-001", "code-gecko", "default"},
        st \in BOOLEAN }

NeuraLines == {DataLine(ChunkPayload(Hel)), DataLine(DeltaPayload(lo)), <<DATA, SP, DONE>>}
NeuraTexts == TextsOver(NeuraLines, MaxFrames)

InitDispatch ==
    /\ InitChat
    /\ InitNoStream
    /\ call \in {c \in Calls : c.request.model \in ModelsOf(c.provider)}
    /\ env \in Envs
    /\ dpc = "idle"
    /\ fetches = 0
    /\ result = NoResult
    /\ sent = NoBody
    /\ synth = NoSynth
    /\ server = NoPost
    /\ responseStatus = 0
    /\ fullContent = <<>>

NextDispatch ==
    \/ sendChatRequest_call
    \/ fetch_reject
    \/ \E st \in Statuses : fetch_notOk(st)
    \/ fetch_badBody
    \/ \E i \in First :
        \/ \E c \in ResponseContents, t \in NeuraTexts : fetch_ok(i, c, t)
        \/ sendNeuraRequest_read(i)
        \/ sendNeuraRequest_done(i)
        \/ sendNeuraRequest_throw(i)
        \/ transport_enqueue(i)
        \/ transport_close(i)
        \/ transport_error(i)

SpecDispatch == InitDispatch /\ [][NextDispatch]_vars

\* One call of an adapter that rewrites the messages (Claude, Flowise,
\* Google), over the requests of up to three messages among a system prompt,
\* two user messages, a blank user message and an assistant message.
why == ReqMessage("user", <<Tok("Why")>>)

AdaptRequests ==
    LET M == {<<>>} \cup {<<m>> : m \in {sys, hi, why, blank, welcome}}
    IN {a \o b \o c : a \in M, b \in M, c \in M}

AdaptCalls ==
    { [provider |-> p, request |-> ChatRequest(m, md, st)] :
        p \in {"claude", "flowise", "google"}, m \in AdaptRequests,
        md \in {"gemini-pro", "imagen-3.0-generate-001", "code-gecko", "default"},
        st \in BOOLEAN }

InitAdapt ==
    /\ InitChat
    /\ InitNoStream
    /\ streamEnabled
    /\ call \in {c \in AdaptCalls : c.request.model \in ModelsOf(c.provider)}
    /\ env \in {EnvNames, {"VITE_GROQ_API_KEY"}}
    /\ dpc = "idle"
    /\ fetches = 0
    /\ result = NoResult
    /\ sent = NoBody
    /\ synth = NoSynth
    /\ server = NoPost
    /\ responseStatus = 0
    /\ fullContent = <<>>

NextAdapt ==
    \/ sendChatRequest_call
    \/ fetch_reject
    \/ \E st \in Statuses : fetch_notOk(st)
    \/ fetch_badBody
    \/ \E i \in First, c \in ResponseContents : fetch_ok(i, c, <<>>)

SpecAdapt == InitAdapt /\ [][NextAdapt]_vars

\* One Neura call with stream=false whose body carries up to three frames, one
\* for each of the four envelope shapes.
MessagePayload(v) == Obj(Undef, Undef, Undef, Undef, Undef, v)
ClaudePayload(v) == Obj(Undef, CBD, TD, v, Undef, Undef)

AggregateLines ==
    { DataLine(ChunkPayload(Hel)),      \* data: {"chunk":"Hel"}
      DataLine(DeltaPayload(lo)),       \* data: {"choices":[{"delta":{"content":"lo"}}]}
      DataLine(ClaudePayload(wor)),     \* data: {"type":"content_block_delta","delta":{"type":"text_delta","text":"wor"}}
      DataLine(MessagePayload(ld)) }    \* data: {"choices":[{"message":{"content":"ld"}}]}

AggregateTexts ==
    LET F == {<<>>} \cup {Frame(l) : l \in AggregateLines}
    IN {a \o b \o c : a \in F, b \in F, c \in F}

InitAggregate ==
    /\ InitChat
    /\ InitNoStream
    /\ streamEnabled
    /\ call = [provider |-> "neura", request |-> ChatRequest(<<welcome, hi>>, "default", FALSE)]
    /\ env \in {EnvNames, {}}
    /\ dpc = "idle"
    /\ fetches = 0
    /\ result = NoResult
    /\ sent = NoBody
    /\ synth = NoSynth
    /\ server = NoPost
    /\ responseStatus = 0
    /\ fullContent = <<>>

NextAggregate ==
    \/ sendChatRequest_call
    \/ fetch_reject
    \/ \E st \in Statuses : fetch_notOk(st)
    \/ \E i \in First :
        \/ \E t \in AggregateTexts : fetch_ok(i, <<>>, t)
        \/ sendNeuraRequest_read(i)
        \/ sendNeuraRequest_done(i)
        \/ sendNeuraRequest_throw(i)
        \/ transport_enqueue(i)
        \/ transport_close(i)
        \/ transport_error(i)

SpecAggregate == InitAggregate /\ [][NextAggregate]_vars

\* One streaming call of the Flowise or the Google chat adapter, whose SDK
\* delivers up to three events among a token, a token with no data and an
\* event that is not a token.
SdkEvents ==
    LET E == {<<>>} \cup {<<e>> : e \in {SdkEvent("token", <<Tok("Hel")>>),
                                          SdkEvent("token", <<>>),
                                          SdkEvent("metadata", <<Tok("id")>>)}}
    IN {a \o b \o c : a \in E, b \in E, c \in E}

InitSynth ==
    /\ InitChat
    /\ InitNoStream
    /\ streamEnabled
    /\ call \in { [provider |-> p, request |-> ChatRequest(m, md, TRUE)] :
                    p \in {"flowise", "google"}, m \in {<<welcome, hi>>, <<welcome>>},
                    md \in {"gemini-pro"} }
    /\ env \in {EnvNames, {}}
    /\ dpc = "idle"
    /\ fetches = 0
    /\ result = NoResult
    /\ sent = NoBody
    /\ synth = NoSynth
    /\ server = NoPost
    /\ responseStatus = 0
    /\ fullContent = <<>>

NextSynth ==
    \/ sendChatRequest_call
    \/ \E events \in SdkEvents : synth_resolve(events)
    \/ synth_event
    \/ synth_end
    \/ synth_fail

SpecSynth == InitSynth /\ [][NextSynth]_vars

\* One POST to /api/chat/completions, for each provider name of the switch,
\* the client's name for the Neura router, a name no one knows and a missing
\* provider, with and without a messages array, under environments with no
\* key, every key, and one key only.
ServerKeyNames == {serverKeyVar(p) : p \in SwitchCases}
ServerEnvs == {{}, ServerKeyNames, {"GROQ_API_KEY"}, {"FLOWISE_API_KEY"}}

InitServer ==
    /\ InitChat
    /\ InitNoStream
    /\ streamEnabled
    /\ call = [provider |-> "groq", request |-> ChatRequest(<<>>, "", FALSE)]
    /\ env = {}
    /\ dpc = "idle"
    /\ fetches = 0
    /\ result = NoResult
    /\ sent = NoBody
    /\ synth = NoSynth
    /\ server \in {Post(p, m, e) : p \in SwitchCases \cup {"neura", "mistral", ""},
                                   m \in BOOLEAN, e \in ServerEnvs}
    /\ responseStatus = 0
    /\ fullContent = <<>>

NextServer ==
    \/ server_post
    \/ server_respond
    \/ server_catch

SpecServer == InitServer /\ [][NextServer]_vars

\* Streams of one data frame, over the payloads that combine the members the
\* shape dispatch reads.
Payloads ==
    { Obj(c, t, dt, dx, dc, mc) :
        c \in {Undef, Hel, Empty, Null}, t \in {Undef, CBD}, dt \in {Undef, TD},
        dx \in {Undef, lo}, dc \in {Undef, Empty, wor}, mc \in {Undef, ld} }

InitShape == InitStream({Frame(DataLine(p)) : p \in Payloads})

SpecShape == InitShape /\ [][NextNormalize]_vars

\* Streams of data frames whose lines are at the edges of what the line
\* tests accept: the tag with no space after the colon, and texts that quote a
\* control token.
say == Tok("say")

EdgeLines ==
    { DataLine(ChunkPayload(Hel)),                       \* data: {"chunk":"Hel"}
      <<DATA, LB, Body(ChunkPayload(lo)), RB>>,          \* data:{"chunk":"lo"}
      DataLine(ChunkPayload(Str(<<say, SP, DONE>>))),    \* data: {"chunk":"say [DONE]"}
      DataLine(DeltaPayload(Str(<<EVENT, SP, PING>>))) } \* data: {"choices":[{"delta":{"content":"event: ping"}}]}

InitEdge == InitStream(TextsOver(EdgeLines, MaxFrames))

SpecEdge == InitEdge /\ [][NextNormalize]_vars

\* Streams whose data lines carry content, a JSON object with none of the
\* members the shape dispatch reads, or the JSON value null.
NoMembers == Obj(Undef, Undef, Undef, Undef, Undef, Undef)

UnmatchedLines ==
    { DataLine(ChunkPayload(Hel)),      \* data: {"chunk":"Hel"}
      DataLine(DeltaPayload(lo)),       \* data: {"choices":[{"delta":{"content":"lo"}}]}
      DataLine(NoMembers),              \* data: {"id":"x"}
      <<DATA, SP, NULLTOK>> }           \* data: null

\* Three places, each empty or holding one frame.
UnmatchedTexts ==
    LET F == {<<>>} \cup {Frame(l) : l \in UnmatchedLines}
    IN {a \o b \o c : a \in F, b \in F, c \in F}

InitUnmatched == InitStream(UnmatchedTexts) /\ streamEnabled

SpecUnmatched == InitUnmatched /\ [][NextNormalize]_vars

\* =================================================================== claims
\* What the claims compare the generator's output with.

\* All the fragments streamChatResponse yields for one chunk.
RECURSIVE LinesFragments(_)
LinesFragments(ls) ==
    IF ls = <<>> THEN <<>> ELSE processLine(Head(ls)) \o LinesFragments(Tail(ls))

SingleChunkFragments(bytes) == LinesFragments(chunkLines(bytes))

\* The envelope shapes of the wire format, in their documented priority, and
\* the text each carries.
IsString(v) == v.ty = "string"

EnvelopeText(p) ==
    IF IsString(p.chunk) THEN <<p.chunk>>
    ELSE IF p.type = CBD /\ p.dtype = TD /\ IsString(p.dtext) THEN <<p.dtext>>
    ELSE IF IsString(p.dcontent) THEN <<p.dcontent>>
    ELSE IF IsString(p.mcontent) THEN <<p.mcontent>>
    ELSE <<>>

\* A line "data: <JSON object>".
IsObjectLine(line) ==
    /\ Len(line) = 5
    /\ line[1] = DATA /\ line[2] = SP /\ line[3] = LB /\ line[4].t = "json" /\ line[5] = RB

\* A content-bearing data line: its payload matches one of the envelope shapes.
IsContentLine(line) == IsObjectLine(line) /\ EnvelopeText(line[4].p) # <<>>

\* A data line whose payload is not valid JSON (and is not the sentinel).
IsMalformedLine(line) ==
    /\ StartsWith(line, <<DATA, SP>>)
    /\ ~IsObjectLine(line)
    /\ line # <<DATA, SP, DONE>>
    /\ line # <<DATA, SP, NULLTOK>>

IsControlLine(line) ==
    \/ line = <<DATA, SP, DONE>>
    \/ StartsWith(line, <<EVENT, SP>>)

\* The texts of the content-bearing lines of a text, in the order of the lines.
RECURSIVE ContentTexts(_)
ContentTexts(ls) ==
    IF ls = <<>> THEN <<>>
    ELSE (IF IsContentLine(Head(ls)) THEN EnvelopeText(Head(ls)[4].p) ELSE <<>>)
         \o ContentTexts(Tail(ls))

TextLines(bytes) == SelectSeq(split(bytes), LAMBDA l : l # <<>>)

Finished(i) == gpc[i] = "done"

\* C1: when the bytes of a stream arrive cut into two chunks at any offset, the
\* fragments yielded are those yielded for the same bytes arriving as one chunk.
C1_SplitInvariance ==
    \A i \in Inv :
        (Finished(i) /\ nchunks[i] = 2) => yielded[i] = SingleChunkFragments(text[i])

\* C3: in a stream of valid content-bearing data lines and lines with invalid
\* JSON, the fragments are exactly those of the valid lines, and the generator
\* raises no error unless the transport failed.
OnlyContentAndMalformed(bytes) ==
    \A k \in 1..Len(TextLines(bytes)) :
        IsContentLine(TextLines(bytes)[k]) \/ IsMalformedLine(TextLines(bytes)[k])

C3_MalformedLinesSkipped ==
    \A i \in Inv :
        /\ (Finished(i) /\ OnlyContentAndMalformed(text[i]))
               => yielded[i] = ContentTexts(TextLines(text[i]))
        /\ gpc[i] = "threw" => sstate[i] = "errored"

\* C4: in a stream of control lines (ping events, event: declarations, the
\* sentinel) and valid data lines, the fragments are exactly those of the data
\* lines, in order, none for a control line.
OnlyContentAndControl(bytes) ==
    \A k \in 1..Len(TextLines(bytes)) :
        IsContentLine(TextLines(bytes)[k]) \/ IsControlLine(TextLines(bytes)[k])

C4_ControlLinesSuppressed ==
    \A i \in Inv :
        (Finished(i) /\ OnlyContentAndControl(text[i]))
            => yielded[i] = ContentTexts(TextLines(text[i]))

\* C6: once a data line whose payload is the sentinel has been processed, no
\* further fragment is yielded.
C6_SentinelTerminates ==
    [][\A i \in Inv : sentinelSeen[i] => yielded'[i] = yielded[i]]_vars

\* C7: for a stream of well-formed data lines (content-bearing lines, closed or not
\* by the sentinel line), the fragments are exactly the texts of the
\* content-bearing lines in stream order.
WellFormedDataLines(bytes) ==
    LET ls == TextLines(bytes)
    IN \A k \in 1..Len(ls) :
          IsContentLine(ls[k]) \/ (k = Len(ls) /\ ls[k] = <<DATA, SP, DONE>>)

C7_FragmentsInStreamOrder ==
    \A i \in Inv :
        (Finished(i) /\ WellFormedDataLines(text[i]))
            => yielded[i] = ContentTexts(TextLines(text[i]))

\* The three statements above hold of the runs in which every chunk ends at the
\* end of a line: what breaks them is only the line cut by a chunk boundary.
C3_WholeLineChunks ==
    \A i \in Inv :
        (Finished(i) /\ ~midLine[i] /\ OnlyContentAndMalformed(text[i]))
            => yielded[i] = ContentTexts(TextLines(text[i]))

C4_WholeLineChunks ==
    \A i \in Inv :
        (Finished(i) /\ ~midLine[i] /\ OnlyContentAndControl(text[i]))
            => yielded[i] = ContentTexts(TextLines(text[i]))

C7_WholeLineChunks ==
    \A i \in Inv :
        (Finished(i) /\ ~midLine[i] /\ WellFormedDataLines(text[i]))
            => yielded[i] = ContentTexts(TextLines(text[i]))

NoErrorFromLines == \A i \in Inv : gpc[i] = "threw" => sstate[i] = "errored"

\* C5: a parsed payload yields exactly one fragment, that of the first of the
\* shapes chunk, content_block_delta/text_delta, choices[0].delta.content,
\* choices[0].message.content that it matches.  A shape matches as the code tests
\* it: a chunk member is present; the two type tags are equal to the expected
\* ones; the content is a non-empty string.
MatchesChunk(p) == p.chunk # Undef
MatchesContentBlockDelta(p) == p.type = CBD /\ p.dtype = TD
MatchesChoicesDelta(p) == IsString(p.dcontent) /\ p.dcontent # Empty
MatchesChoicesMessage(p) == IsString(p.mcontent) /\ p.mcontent # Empty

AssistantContent(i) ==
    IF \E k \in 1..Len(msgs) : msgs[k].id = i
    THEN msgs[CHOOSE k \in 1..Len(msgs) : msgs[k].id = i].content
    ELSE <<>>

\* C2: once the controller of a generation is aborted, no step changes the
\* content of the assistant message that generation streams into, however
\* many chunks are still buffered or still arrive.
C2_NoAppendAfterCancel ==
    [][\A i \in Inv : aborted[i] => AssistantContent(i)' = AssistantContent(i)]_vars

\* Some fragments were appended, the user cancelled, one more fragment was
\* yielded and the loop left without appending it, with bytes still to come.
C2_Witness ==
    \E i \in Inv :
        /\ aborted[i] /\ gpc[i] = "returned" /\ spc[i] = "finished"
        /\ AssistantContent(i) # <<>>
        /\ slot[i] # Undef
        /\ net[i] # <<>>

\* What the call was given.
KeyResolvable == getApiKeyForProvider(call.provider) # <<>>

\* The call passes configuration validation: a key is resolvable or the
\* provider is flowise, and flowise has its chatflow id.
PassesConfig ==
    /\ KeyResolvable \/ call.provider = "flowise"
    /\ call.provider = "flowise" => "VITE_FLOWISE_CHATFLOW_ID" \in env

\* The adapter finds nothing to send in the request's messages.
RejectsMessages ==
    \/ call.provider = "claude" /\ \A k \in 1..Len(call.request.messages) :
                                      Trim(call.request.messages[k].content) = <<>>
    \/ call.provider \in {"flowise", "google"} /\ ~HasUser(call.request.messages)

\* C8: a Neura call with stream=false never settles with a stream; when it
\* settles with a response the body has been read to its end and the reader
\* released, and the response carries what was aggregated; it settles with an
\* error only when the key is missing, the request failed, the status was not
\* ok, or reading the body failed.
C8_NeuraNonStreamAggregates ==
    (call.provider = "neura" /\ ~call.request.stream /\ dpc = "done") =>
        /\ result.kind \in {"response", "error"}
        /\ result.kind = "response" =>
              /\ sstate[1] = "closed" /\ queue[1] = <<>> /\ net[1] = <<>>
              /\ ~locked[1]
              /\ result.content = fullContent
        /\ result.kind = "error" =>
              \/ result.reason = "config" /\ ~KeyResolvable
              \/ result.reason \in {"network", "http"} /\ sstate[1] = "none"
              \/ result.reason = "read" /\ sstate[1] = "errored"

\* A Neura call with stream=false returned a response aggregated from a body
\* that came in two chunks.
C8_Witness ==
    /\ call.provider = "neura" /\ ~call.request.stream /\ dpc = "done"
    /\ result.kind = "response" /\ result.content # <<>>
    /\ nchunks[1] >= 2

\* C9: a call for a provider other than flowise with no resolvable key has
\* settled with an error as soon as it has started, without any request
\* issued; a call that issued a request without a key is a flowise call.
C9_NoKeyNoRequest ==
    /\ (dpc # "idle" /\ call.provider # "flowise" /\ ~KeyResolvable) =>
          dpc = "done" /\ result.kind = "error" /\ fetches = 0
    /\ (fetches > 0 /\ ~KeyResolvable) => call.provider = "flowise"

\* A call for a provider that needs a key was made without one and failed.
C9_Witness ==
    /\ call.provider # "flowise" /\ ~KeyResolvable
    /\ dpc = "done" /\ result = Error("config") /\ fetches = 0

\* C10 as stated: a call that passes configuration validation has issued
\* exactly one request when it settles.
C10_ExactlyOneRequest ==
    /\ fetches <= 1
    /\ (dpc = "done" /\ PassesConfig) => fetches = 1

\* C10 amended: no call issues a second request; a call that passes
\* configuration validation issues exactly one, unless its adapter finds no
\* message to send (Claude: every message blank; Flowise, Google: no user
\* message), and then it issues none.
C10_AtMostOneRequest ==
    /\ fetches <= 1
    /\ (dpc # "idle" /\ PassesConfig /\ ~RejectsMessages) => fetches = 1
    /\ (dpc # "idle" /\ PassesConfig /\ RejectsMessages) =>
          fetches = 0 /\ result = Error("messages")

\* A call that passed validation failed (status not ok, or no connection)
\* and settled having issued its one request.
C10_Witness ==
    /\ dpc = "done" /\ PassesConfig /\ ~RejectsMessages
    /\ result.kind = "error" /\ result.reason \in {"http", "network"}
    /\ fetches = 1
\* The adapters that call fetch themselves.
HttpAdapters == Providers \ {"flowise", "google"}

\* C11: when the provider answers a fetch adapter with a status that is not
\* successful, the call settles with an error that carries that status, not
\* with a response or a stream, whatever the stream flag.
C11_HttpErrorCarriesStatus ==
    (dpc = "done" /\ responseStatus # 0 /\ ~ok(responseStatus)
        /\ call.provider \in HttpAdapters) =>
        result.kind = "error" /\ result.status = responseStatus

\* A streaming Neura call was answered with status 500 and failed with it.
C11_Witness ==
    /\ call.provider = "neura" /\ call.request.stream /\ dpc = "done"
    /\ responseStatus = 500 /\ result = HttpError(500)
\* C12: a generator that has ended, by the end of the stream, by the
\* consumer's break or by a read error, has released its reader exactly once
\* and holds none; one that has not ended holds its reader and has released
\* nothing.
C12_ReaderReleasedOnce ==
    \A i \in Inv :
        /\ gpc[i] \in {"done", "threw", "returned"} => releases[i] = 1 /\ ~locked[i]
        /\ gpc[i] \in {"read", "yield"} => releases[i] = 0 /\ locked[i]
        /\ gpc[i] = "none" => releases[i] = 0

\* The consumer left the loop at a yield with the stream still open, and the
\* reader was released.
C12_Witness ==
    \E i \in Inv :
        gpc[i] = "returned" /\ sstate[i] = "open" /\ releases[i] = 1 /\ ~locked[i]
\* How many error messages the conversation holds.
ErrorMessages == Cardinality({k \in 1..Len(msgs) : msgs[k].content = Sorry})

\* C13: a generator ends normally only on a stream that closed, so a failed
\* read is never passed off as the end; once the generator has thrown it stays
\* thrown (no further read) and the streamed message no longer changes; and
\* the sendMessage that consumed it has run its catch, which added one error
\* message.
C13_ReadErrorIsTerminal ==
    /\ [](\A i \in Inv :
            /\ gpc[i] = "done" => sstate[i] = "closed"
            /\ (gpc[i] = "threw" /\ spc[i] = "finished") =>
                  errorShown[i] /\ ErrorMessages = 1)
    /\ [][\A i \in Inv :
            gpc[i] = "threw" =>
                /\ gpc'[i] = "threw"
                /\ queue'[i] = queue[i]
                /\ AssistantContent(i)' = AssistantContent(i)]_vars

\* Fragments were appended, then the read failed and sendMessage ended in its
\* catch.
C13_Witness ==
    \E i \in Inv :
        /\ gpc[i] = "threw" /\ spc[i] = "finished" /\ errorShown[i]
        /\ AssistantContent(i) # <<>>
\* A read of stream i resolves with a chunk in this step.
ReadResolves(i) == gpc[i] = "read" /\ Len(queue'[i]) < Len(queue[i]) /\ sstate'[i] # "errored"

\* C14: from the moment the controller of a generation is aborted, the byte
\* stream of that generation is no longer open, and no read on it resolves
\* with a chunk.
C14_CancelAbortsTransport ==
    [][\A i \in Inv : aborted'[i] => (sstate'[i] # "open" /\ ~ReadResolves(i))]_vars
\* A continuation of the generator or of sendMessage for invocation i can
\* run: the disjunction of the guards of sendMessage_chunk, _streamEnd and
\* _streamError and of streamChatResponse_read, _done and _throw.
CanProgress(i) ==
    /\ spc[i] = "streaming"
    /\ \/ gpc[i] \in {"yield", "done", "threw"}
       \/ gpc[i] = "read" /\ (queue[i] # <<>> \/ sstate[i] \in {"closed", "errored"})

\* C15: while a generation whose controller is aborted is still in its
\* streaming loop, the program itself has a step that takes it on towards the
\* end of the loop; it never waits for the transport to deliver, close or fail.
C15_CancelUnblocks ==
    \A i \in Inv : (aborted[i] /\ spc[i] = "streaming") => CanProgress(i)
\* C16: no step taken by a generation that is cancelled and still in its
\* streaming loop adds an error message or changes the streamed content.
C16_CancelIsNotAnError ==
    [][\A i \in Inv :
        (aborted[i] /\ spc[i] = "streaming") =>
            /\ ~errorShown'[i]
            /\ ErrorMessages' = ErrorMessages
            /\ AssistantContent(i)' = AssistantContent(i)]_vars

\* The same holds of every step but the one that delivers a read failure that
\* happened after the cancellation: the break on the abort test and the end of
\* the stream finish sendMessage without its catch.
C16_UnlessReadFails ==
    [][\A i \in Inv :
        (aborted[i] /\ spc[i] = "streaming" /\ gpc[i] # "threw") =>
            /\ ~errorShown'[i]
            /\ ErrorMessages' = ErrorMessages
            /\ AssistantContent(i)' = AssistantContent(i)]_vars
\* C17: the messages of every request passed to sendChatRequest hold at least
\* one message of role user.
C17_RequestHasUserMessage ==
    \A i \in Inv : spc[i] # "idle" => HasUser(request[i])
\* A line that begins with the data: tag, followed or not by spaces, and then
\* by a JSON object that matches an envelope shape; and the text it carries.
TaggedPayload(line) == JSONparse(SubSeq(line, 2, Len(line)))

IsTaggedContentLine(line) ==
    /\ StartsWith(line, <<DATA>>)
    /\ TaggedPayload(line).ok
    /\ TaggedPayload(line).data # Null
    /\ EnvelopeText(TaggedPayload(line).data) # <<>>

\* The text of the line holds a control token.
QuotesControl(line) == Includes(line, <<DONE>>) \/ Includes(line, <<EVENT, SP, PING>>)

RECURSIVE TaggedTexts(_)
TaggedTexts(ls) ==
    IF ls = <<>> THEN <<>>
    ELSE EnvelopeText(TaggedPayload(Head(ls)).data) \o TaggedTexts(Tail(ls))

\* C18: in a stream delivered in chunks that end at line ends, whose lines all
\* begin with the data: tag followed, with or without a space, by a valid
\* content-bearing JSON payload (none quoting a control token), the fragments
\* are exactly the texts of the lines.
C18_DataTagStripped ==
    \A i \in Inv :
        (/\ Finished(i) /\ ~midLine[i]
         /\ \A k \in 1..Len(TextLines(text[i])) :
               /\ IsTaggedContentLine(TextLines(text[i])[k])
               /\ ~QuotesControl(TextLines(text[i])[k]))
            => yielded[i] = TaggedTexts(TextLines(text[i]))

\* C19: in a stream delivered in chunks that end at line ends, whose lines are
\* all "data: " lines with a content-bearing JSON payload, every line yields
\* its fragment, whatever text the payload carries (the sentinel token or the
\* text of a ping event included).
C19_OnlyPureControlSuppressed ==
    \A i \in Inv :
        (/\ Finished(i) /\ ~midLine[i]
         /\ \A k \in 1..Len(TextLines(text[i])) : IsContentLine(TextLines(text[i])[k]))
            => yielded[i] = ContentTexts(TextLines(text[i]))

\* With the tag followed by a space and no control token quoted, both hold.
C18_C19_PlainLines ==
    \A i \in Inv :
        (/\ Finished(i) /\ ~midLine[i]
         /\ \A k \in 1..Len(TextLines(text[i])) :
               /\ IsContentLine(TextLines(text[i])[k])
               /\ ~QuotesControl(TextLines(text[i])[k]))
            => yielded[i] = ContentTexts(TextLines(text[i]))

\* C20: every value streamChatResponse yields is a text string.
C20_YieldsOnlyStrings ==
    \A i \in Inv : \A k \in 1..Len(yielded[i]) : IsString(yielded[i][k])
\* A payload that matches none of the four shapes: null, or an object with no
\* chunk member, not a text_delta content_block_delta, and no non-empty
\* delta.content or message.content.
NoShape(p) ==
    \/ p = Null
    \/ /\ p.chunk = Undef
       /\ ~(p.type = CBD /\ p.dtype = TD)
       /\ ~Truthy(p.dcontent)
       /\ ~Truthy(p.mcontent)

IsShapelessLine(line) ==
    /\ StartsWith(line, <<DATA, SP>>)
    /\ JSONparse(trimmedLine(line)).ok
    /\ NoShape(JSONparse(trimmedLine(line)).data)

WithoutShapeless(ls) == SelectSeq(ls, LAMBDA l : ~IsShapelessLine(l))

\* C21: a data line whose payload is valid JSON but matches none of the four
\* shapes yields nothing and raises no error: on a delivery whose chunks end at
\* line ends the fragments are those of the stream with these lines taken
\* out, and the generator throws only when the transport failed.
C21_UnmatchedShapeSkipped ==
    \A i \in Inv :
        /\ (Finished(i) /\ ~midLine[i])
               => yielded[i] = LinesFragments(WithoutShapeless(TextLines(text[i])))
        /\ gpc[i] = "threw" => sstate[i] = "errored"

C21_Witness ==
    /\ Finished(1) /\ ~midLine[1]
    /\ text[1] = Frame(<<DATA, SP, NULLTOK>>) \o Frame(DataLine(NoMembers))
                    \o Frame(DataLine(ChunkPayload(Hel)))
    /\ yielded[1] = <<Hel>>
\* The messages of a request whose content is not blank, in their order, a
\* system message counted as a user message.
RECURSIVE NonBlankRenamed(_)
NonBlankRenamed(ms) ==
    IF ms = <<>> THEN <<>>
    ELSE (IF \E k \in 1..Len(Head(ms).content) : Head(ms).content[k] # SP
          THEN <<ReqMessage(IF Head(ms).role = "system" THEN "user" ELSE Head(ms).role,
                            Head(ms).content)>>
          ELSE <<>>)
         \o NonBlankRenamed(Tail(ms))

\* C22: a Claude call that has its key sends exactly the non-blank messages
\* of the request, in order, with system renamed to user; when none is left
\* it fails with an error and sends nothing.
C22_ClaudeBodyFiltered ==
    (call.provider = "claude" /\ dpc # "idle" /\ KeyResolvable) =>
        IF NonBlankRenamed(call.request.messages) = <<>>
        THEN fetches = 0 /\ dpc = "done" /\ result.kind = "error" /\ sent = NoBody
        ELSE fetches = 1 /\ sent.kind = "messages"
             /\ sent.messages = NonBlankRenamed(call.request.messages)

C22_Witness ==
    /\ call.provider = "claude" /\ dpc = "fetch"
    /\ call.request.messages = <<sys, blank, hi>>
    /\ sent.messages = <<ReqMessage("user", sys.content), hi>>
\* The history a Flowise call should carry: every non-system message but the
\* last user message itself, in order.
ExpectedFlowiseHistory(ms) ==
    LET last == CHOOSE k \in 1..Len(ms) :
                    ms[k].role = "user" /\ \A j \in (k + 1)..Len(ms) : ms[j].role # "user"
        idx == {k \in 1..Len(ms) : ms[k].role # "system" /\ k # last}
        nth(n) == CHOOSE k \in idx : Cardinality({j \in idx : j < k}) = n - 1
    IN [n \in 1..Cardinality(idx) |->
          [role |-> IF ms[nth(n)].role = "assistant" THEN "apiMessage" ELSE "userMessage",
           content |-> ms[nth(n)].content]]

\* C23: a Flowise call that reaches createPrediction sends the content of the
\* last user message as the question and, as history, every non-system
\* message except that last user message, in order.
C23_FlowiseQuestionAndHistory ==
    (call.provider = "flowise" /\ dpc # "idle" /\ PassesConfig
        /\ HasUser(call.request.messages)) =>
        /\ sent.kind = "prediction"
        /\ sent.question = lastUserMessage(call.request.messages).content
        /\ sent.history = ExpectedFlowiseHistory(call.request.messages)

\* The same, for requests in which no earlier user message has the content of
\* the last one.
C23_UnlessRepeated ==
    (call.provider = "flowise" /\ dpc # "idle" /\ PassesConfig
        /\ HasUser(call.request.messages)
        /\ Cardinality({k \in 1..Len(call.request.messages) :
                call.request.messages[k].role = "user"
                /\ call.request.messages[k].content
                      = lastUserMessage(call.request.messages).content}) = 1) =>
        /\ sent.kind = "prediction"
        /\ sent.question = lastUserMessage(call.request.messages).content
        /\ sent.history = ExpectedFlowiseHistory(call.request.messages)
\* A Google chat call (not Imagen, not code-gecko) that got past the key test
\* and whose request holds a message that is not a system message.
GoogleChatStarted ==
    /\ call.provider = "google" /\ call.request.model = "gemini-pro"
    /\ dpc # "idle" /\ KeyResolvable
    /\ nonSystemMessages(call.request.messages) # <<>>

\* C24: the history a Google chat call passes to startChat is not empty,
\* begins with a user entry, and no two consecutive entries have the same
\* role (each is user or model).
C24_GoogleHistoryAlternates ==
    GoogleChatStarted =>
        /\ sent.kind = "chat"
        /\ sent.history # <<>>
        /\ sent.history[1].role = "user"
        /\ \A k \in 1..Len(sent.history) : sent.history[k].role \in {"user", "model"}
        /\ \A k \in 1..(Len(sent.history) - 1) :
              sent.history[k].role # sent.history[k + 1].role

C24_Witness ==
    /\ GoogleChatStarted
    /\ call.request.messages = <<welcome, hi, why>>
    /\ sent.history = <<[role |-> "user", text |-> Hello],
                        [role |-> "model", text |-> welcome.content],
                        [role |-> "user", text |-> hi.content \o <<NL>> \o why.content]>>
\* C25: whatever its outcome, the step that finishes a sendMessage leaves
\* isLoading false and isStreaming false.
C25_FinishResetsFlags ==
    [][\A i \in Inv :
          (spc[i] # "finished" /\ spc'[i] = "finished") => (~isLoading' /\ ~isStreaming')]_vars

\* A stream that failed after a fragment had been appended, and the
\* sendMessage that consumed it has finished with both flags down.
C25_Witness ==
    /\ spc[1] = "finished" /\ gpc[1] = "threw" /\ errorShown[1]
    /\ responseContent[1] # <<>>
    /\ ~isLoading /\ ~isStreaming
\* The assistant messages of the conversation after the welcome message.
TurnAssistantMessages ==
    {k \in 2..Len(msgs) : msgs[k].role = "assistant"}

\* C26: when a stream has failed after fragments were appended and sendMessage
\* has finished, the turn has left exactly one assistant message, and it
\* carries the error string.
C26_ErrorReplacesPartial ==
    \A i \in First :
        (spc[i] = "finished" /\ gpc[i] = "threw" /\ responseContent[i] # <<>>) =>
            /\ Cardinality(TurnAssistantMessages) = 1
            /\ \A k \in TurnAssistantMessages : msgs[k].content = Sorry
\* The text a consumer accumulates from fragments.
RECURSIVE FragmentsText(_)
FragmentsText(fs) == IF fs = <<>> THEN <<>> ELSE toText(Head(fs)) \o FragmentsText(Tail(fs))

NeuraAggregated ==
    /\ call.provider = "neura" /\ ~call.request.stream
    /\ dpc = "done" /\ result.kind = "response"

\* C27: the content of the response a Neura call with stream=false builds
\* from a body delivered in chunks that end at line ends is the concatenation
\* of the fragments streamChatResponse yields for the same lines.
C27_AggregateEqualsNormalizer ==
    (NeuraAggregated /\ ~midLine[1]) =>
        result.content = FragmentsText(LinesFragments(TextLines(text[1])))

\* The same, for bodies whose lines carry only the chunk and delta.content
\* shapes.
C27_ChunkAndDeltaOnly ==
    (NeuraAggregated /\ ~midLine[1]
        /\ \A k \in 1..Len(TextLines(text[1])) :
              TextLines(text[1])[k] \in {DataLine(ChunkPayload(Hel)), DataLine(DeltaPayload(lo))}) =>
        result.content = FragmentsText(LinesFragments(TextLines(text[1])))
IsDeltaFrame(f) ==
    /\ Len(f) = 7
    /\ SubSeq(f, 1, 3) = <<DATA, SP, LB>> /\ SubSeq(f, 5, 7) = <<RB, NL, NL>>
    /\ f[4].t = "json"
    /\ f[4].p = DeltaPayload(f[4].p.dcontent)
    /\ IsString(f[4].p.dcontent) /\ f[4].p.dcontent.s # <<>>

\* C28: the frames a synthesized stream has been given are data frames with a
\* non-empty delta, closed by one sentinel frame exactly when the stream is
\* closed; a stream put in error holds no sentinel frame.
C28_SynthesizedStreamShape ==
    LET fs == synth.frames
    IN /\ \A k \in 1..Len(fs) : IsDeltaFrame(fs[k]) \/ (k = Len(fs) /\ fs[k] = DoneFrame)
       /\ synth.pc = "closed" <=> (fs # <<>> /\ fs[Len(fs)] = DoneFrame)
       /\ synth.pc = "errored" => \A k \in 1..Len(fs) : fs[k] # DoneFrame

C28_Witness ==
    /\ synth.pc = "closed"
    /\ synth.frames = <<DeltaFrame(<<Tok("Hel")>>), DeltaFrame(<<Tok("Hel")>>), DoneFrame>>
\* C29: while an invocation of sendMessage is consuming its stream,
\* isStreaming is true and streamController holds the controller of an
\* invocation that is consuming its stream.
C29_StreamingStateTracksInFlight ==
    (\E i \in Inv : spc[i] = "streaming") =>
        /\ isStreaming
        /\ streamController # 0
        /\ spc[streamController] = "streaming"

\* With a single invocation the same holds.
C29_SingleInvocation ==
    (spc[1] = "streaming" /\ spc[2] = "idle") =>
        /\ isStreaming
        /\ streamController # 0
        /\ spc[streamController] = "streaming"
\* C30: a POST with a messages array whose provider is not one of the
\* supported providers is answered with status 400 and the error Unsupported
\* provider, and no provider has been called.
C30_UnsupportedProviderIs400 ==
    (server.pc = "answered" /\ server.provider # "" /\ server.messages
        /\ server.provider \notin SwitchCases) =>
        /\ server.status = 400
        /\ server.error = "Unsupported provider"
        /\ server.calls = 0

\* Such a POST is refused without any provider call.
C30_RefusedWithoutCall ==
    (server.pc # "received" /\ server.provider \notin SwitchCases) =>
        /\ server.pc = "answered"
        /\ server.status \in {400, 500}
        /\ server.calls = 0
====
